---- MODULE Spec2Model ----
(***************************************************************************)
(* Model of the structural assembly engine of GeometrieConverter           *)
(* (python_scripts/misc.py): the segment validator, the node interpolator  *)
(* add_element and the run of assemble_structure with its writes to the    *)
(* table sink.                                                             *)
(*                                                                         *)
(* A table (pandas DataFrame) is a sequence of rows, a row is a record of  *)
(* cells.  A cell is a float, NaN (missing) or a text that is no number.   *)
(* A float that is a ratio of small integers is kept as that ratio; any    *)
(* other float (0.1, for one) is kept in binary, with its 53 bits, and     *)
(* sums and differences are rounded to the nearest float as numpy's        *)
(* float64 rounds them.                                                    *)
(***************************************************************************)
EXTENDS Integers, Sequences, FiniteSets, TLC

\* ------------------------------------------------------------------ bounds
\* elevations of the input tables are the integers 0..MaxZ
MaxZ == 3
\* an input segment table has 1..MaxSeg rows
MaxSeg == 2
\* in a run the MP and TOWER tables take their elevations from 0..MaxZSide
MaxZSide == 2
\* added masses: rows of the TOWER mass table, highest top_m of a mass
MaxMass == 2
MaxMassTop == 1
MaxEdits == 2

\* ------------------------------------------------------------------- cells
Abs(i) == IF i < 0 THEN 0 - i ELSE i

RECURSIVE Gcd(_, _)
Gcd(a, b) == IF b = 0 THEN a ELSE Gcd(b, a % b)

\* the float n/d (d # 0), in lowest terms with a positive denominator
Num(n, d) ==
    LET g == Gcd(Abs(n), Abs(d))
        s == IF d < 0 THEN 0 - 1 ELSE 1
    IN  [k |-> "num", n |-> (s * n) \div g, d |-> (s * d) \div g]

F(i) == Num(i, 1)
NaN == [k |-> "nan", n |-> 0, d |-> 1]
Text == [k |-> "str", n |-> 0, d |-> 1]

\* a float in binary: s * m * 2^e with the sign s, the natural number m
\* written in bits, lowest first, and odd; zero has no bits
Float(s, m, e) ==
    LET ones == {i \in 1..Len(m) : m[i] = 1}
        lo == CHOOSE i \in ones : \A j \in ones : i <= j
        hi == CHOOSE i \in ones : \A j \in ones : i >= j
    IN  IF ones = {} THEN [k |-> "f64", s |-> 1, m |-> <<>>, e |-> 0]
        ELSE [k |-> "f64", s |-> s, m |-> SubSeq(m, lo, hi), e |-> e + lo - 1]

\* the bits of a natural number, and the number of at most 15 bits
RECURSIVE Bits(_)
Bits(i) == IF i = 0 THEN <<>> ELSE <<i % 2>> \o Bits(i \div 2)
RECURSIVE Val(_)
Val(x) == IF x = <<>> THEN 0 ELSE x[1] + 2 * Val(Tail(x))

\* x + y + c of natural numbers in bits, c the carry, 15 bits at a time
RECURSIVE BAdd(_, _, _)
BAdd(x, y, c) ==
    IF x = <<>> /\ y = <<>> THEN Bits(c)
    ELSE LET low(u) == SubSeq(u, 1, IF Len(u) < 15 THEN Len(u) ELSE 15)
             t == Val(low(x)) + Val(low(y)) + c
         IN  [i \in 1..15 |-> ((t % 32768) \div 2^(i - 1)) % 2]
             \o BAdd(SubSeq(x, 16, Len(x)), SubSeq(y, 16, Len(y)), t \div 32768)

\* IEEE 754 binary64, round to nearest, ties to even: the float nearest to
\* s * (m + f) * 2^e, where 0 <= f < 1 and inexact tells whether f > 0
\* (exponents stay far from the ends of the range)
RoundEven(s, m, e, inexact) ==
    LET ones == {i \in 1..Len(m) : m[i] = 1}
        len == CHOOSE i \in ones : \A j \in ones : i >= j
        r == len - 53
        kept == SubSeq(m, r + 1, len)
        rest == inexact \/ \E i \in 1..(r - 1) : m[i] = 1
        up == m[r] = 1 /\ (rest \/ kept[1] = 1)
    IN  IF ones = {} THEN Float(s, <<>>, 0)
        ELSE IF r <= 0 THEN Float(s, m, e)
        ELSE Float(s, IF up THEN BAdd(kept, <<>>, 1) ELSE kept, e + r)

\* long division of the natural number x (in bits) by d, 0 < d < 32768,
\* 15 bits at a time from the highest down, q and rem the quotient and the
\* remainder so far: <<quotient in bits, remainder>>
RECURSIVE DivSmall(_, _, _, _)
DivSmall(x, d, q, rem) ==
    IF x = <<>> THEN <<q, rem>>
    ELSE LET cut == IF Len(x) % 15 = 0 THEN Len(x) - 15 ELSE Len(x) - (Len(x) % 15)
             t == rem * 2^(Len(x) - cut) + Val(SubSeq(x, cut + 1, Len(x)))
         IN  DivSmall(SubSeq(x, 1, cut), d,
                      [i \in 1..(Len(x) - cut) |-> ((t \div d) \div 2^(i - 1)) % 2] \o q,
                      t % d)

\* the float nearest to n/d, d > 0: what a cell showing the decimal n/d
\* holds
Nearest(n, d) ==
    LET p == 54 + Len(Bits(d))
        q == DivSmall([i \in 1..p |-> 0] \o Bits(Abs(n)), d, <<>>, 0)
    IN  IF n = 0 THEN Float(1, <<>>, 0)
        ELSE RoundEven(IF n < 0 THEN 0 - 1 ELSE 1, q[1], 0 - p, q[2] # 0)

\* a float in binary; a ratio of small integers that is a float is itself
ToBin(c) == IF c.k = "f64" THEN c ELSE Nearest(c.n, c.d)

\* float64 a + b of two floats in binary
F64Add(a, b) ==
    LET e == IF a.e < b.e THEN a.e ELSE b.e
        x == [i \in 1..(a.e - e) |-> 0] \o a.m
        y == [i \in 1..(b.e - e) |-> 0] \o b.m
        w == IF Len(x) > Len(y) THEN Len(x) ELSE Len(y)
        \* u - v for u >= v: u plus the complement of v plus 1, carry dropped
        Minus(u, v) ==
            SubSeq(BAdd(u \o [i \in 1..(w - Len(u)) |-> 0],
                        [i \in 1..w |-> IF i <= Len(v) THEN 1 - v[i] ELSE 1], 1), 1, w)
        below == \/ Len(x) < Len(y)
                 \/ /\ Len(x) = Len(y)
                    /\ \E i \in 1..w : /\ x[i] < y[i]
                                        /\ \A j \in (i + 1)..w : x[j] = y[j]
    IN  IF a.m = <<>> THEN b
        ELSE IF b.m = <<>> THEN a
        ELSE IF a.s = b.s THEN RoundEven(a.s, BAdd(x, y, 0), e, FALSE)
        ELSE IF below THEN RoundEven(b.s, Minus(y, x), e, FALSE)
        ELSE RoundEven(a.s, Minus(x, y), e, FALSE)

\* the sum and the difference of two floats: NaN if one of them is NaN;
\* of two ratios of small integers the exact one, which float64 gives as
\* long as it has no more than 53 bits; of floats in binary the rounded one
IsNum(c) == c.k \in {"num", "f64"}
Ratios(a, b) == a.k # "f64" /\ b.k # "f64"
FAdd(a, b) ==
    IF a.k = "nan" \/ b.k = "nan" THEN NaN
    ELSE IF Ratios(a, b) THEN Num(a.n * b.d + b.n * a.d, a.d * b.d)
    ELSE F64Add(ToBin(a), ToBin(b))
FSub(a, b) ==
    IF a.k = "nan" \/ b.k = "nan" THEN NaN
    ELSE IF Ratios(a, b) THEN Num(a.n * b.d - b.n * a.d, a.d * b.d)
    ELSE F64Add(ToBin(a), [ToBin(b) EXCEPT !.s = 0 - @])
FMul(a, b) == Num(a.n * b.n, a.d * b.d)
FDiv(a, b) == Num(a.n * b.d, a.d * b.n)
\* comparisons of floats; every comparison with NaN is false
FEq(a, b) ==
    /\ IsNum(a) /\ IsNum(b)
    /\ IF Ratios(a, b) THEN a.n * b.d = b.n * a.d ELSE ToBin(a) = ToBin(b)
Negative(c) == c.m # <<>> /\ c.s < 0
FLt(a, b) ==
    /\ IsNum(a) /\ IsNum(b)
    /\ IF Ratios(a, b) THEN a.n * b.d < b.n * a.d ELSE Negative(FSub(a, b))
FLe(a, b) == FLt(a, b) \/ FEq(a, b)
FGt(a, b) == FLt(b, a)
FGe(a, b) == FLe(b, a)

\* the columns of a segment table as read from the sheet
DataCols == {"Section", "Top", "Bottom", "DTop", "DBottom", "t"}

\* -------------------------------------------------------------- add_element
\* a Python return value: a DataFrame or None
PyDf(df) == [type |-> "DataFrame", df |-> df]
PyNone == [type |-> "NoneType", df |-> <<>>]

\* misc.py:149 - the height is already a Top or a Bottom of some row
NodeExistsNever(df, z_new) == FALSE
NodeExists(df, z_new) ==
    \E i \in 1..Len(df) : FEq(df[i].Top, z_new) \/ FEq(df[i].Bottom, z_new)

\* misc.py:152 - the rows strictly containing the height
IdInter(df, z_new) ==
    {i \in 1..Len(df) : FGt(df[i].Top, z_new) /\ FLt(df[i].Bottom, z_new)}

\* misc.py:173-174 - the diameter of row S interpolated at the height
DInter(S, z_new) ==
    LET inter_x_rel == FDiv(FSub(z_new, S.Bottom), FSub(S.Top, S.Bottom))
    IN  FAdd(FMul(FSub(S.DTop, S.DBottom), inter_x_rel), S.DBottom)

\* misc.py:161-176 - the inserted row: every column of df, NaN where unset
NewRow(df, id_inter, z_new) ==
    LET S == df[id_inter]
    IN  [c \in DOMAIN S |->
            CASE c = "Affiliation" -> S.Affiliation
              [] c = "t" -> S.t
              [] c = "Top" -> z_new
              [] c = "Bottom" -> S.Bottom
              [] c = "DTop" -> DInter(S, z_new)
              [] c = "DBottom" -> S.DBottom
              [] OTHER -> NaN]

\* misc.py:178-183 - the original row ends at the height, the new row follows
SplitAt(df, id_inter, z_new) ==
    LET upper == [df[id_inter] EXCEPT !.Bottom = z_new]
    IN  SubSeq(df, 1, id_inter - 1) \o <<upper>>
        \o <<NewRow(df, id_inter, z_new)>>
        \o SubSeq(df, id_inter + 1, Len(df))

\* misc.py:113-185
add_element(df, z_new) ==
    IF NodeExists(df, z_new) THEN PyDf(df)
    ELSE LET id_inter == IdInter(df, z_new)
         IN  IF Cardinality(id_inter) = 0 THEN PyDf(df)
             ELSE IF Cardinality(id_inter) > 1 THEN PyDf(df)
             ELSE PyDf(SplitAt(df, CHOOSE i \in id_inter : TRUE, z_new))

\* ------------------------------------------------------------ the validator
\* astype(float) of one cell: an integer cell becomes the float of its value
AsFloat(c) == IF c.k = "int" THEN Num(c.n, 1) ELSE c

\* every cell of the table as a set
Cells(data) == {data[i][c] : i \in 1..Len(data), c \in DataCols}

\* misc.py:9-15 - <<success, data>>: missing cells or cells that do not
\* convert to float fail and hand the table back unconverted
valid_data(data) ==
    IF \E x \in Cells(data) : x.k = "nan" THEN <<FALSE, data>>
    ELSE IF \E x \in Cells(data) : x.k = "str" THEN <<FALSE, data>>
    ELSE <<TRUE, [i \in 1..Len(data) |->
                    [c \in DOMAIN data[i] |-> AsFloat(data[i][c])]]>>

\* misc.py:20 - height_diff: Top of row i+1 minus Bottom of row i is zero
HeightDiffOk(df, i) == FEq(FSub(df[i + 1].Top, df[i].Bottom), F(0))

\* misc.py:18-26 - TRUE iff every row sits on the next one
sanity_check_structure(df) == \A i \in 1..(Len(df) - 1) : HeightDiffOk(df, i)

\* misc.py:35 - "success = sanity_check_structure" binds the function object
\* itself, which is truthy; the function is not called
SanitySuccess(df) == TRUE

\* misc.py:29-36 - <<success, df>>
check_convert_structure(df) ==
    LET r == valid_data(df)
    IN  IF ~r[1] THEN <<FALSE, r[2]>> ELSE <<SanitySuccess(r[2]), r[2]>>

\* misc.py:211 - all([sucess_MP, sucess_TP, sucess_TOWER])
AnySuccess(a, b, c) == a \/ b \/ c
AllSuccess(a, b, c) == a /\ b /\ c

\* ------------------------------------------------------- assemble_structure
\* misc.py:189-191
all_same_ignoring_none(values) ==
    LET non_none == SelectSeq(values, LAMBDA v : v # "None")
    IN  Len(non_none) <= 1 \/ \A i \in 1..Len(non_none) : non_none[i] = non_none[1]

\* misc.py:246-248 - df.insert(0, "Affiliation", name)
InsertAffiliation(df, name) ==
    [i \in 1..Len(df) |-> [c \in DOMAIN df[i] \cup {"Affiliation"} |->
        IF c = "Affiliation" THEN name ELSE df[i][c]]]

\* misc.py:282-284 - the rows at or below MP_top, retagged, without Section
SkirtRows(tp, MP_top) ==
    LET sel == SelectSeq(tp, LAMBDA r : FLe(r.Top, MP_top))
    IN  [i \in 1..Len(sel) |-> [c \in DOMAIN sel[i] \ {"Section"} |->
            IF c = "Affiliation" THEN "SKIRT" ELSE sel[i][c]]]

\* misc.py:294 - cut TP: the rows at or above MP_top stay
CutTPStrict(tp, MP_top) == SelectSeq(tp, LAMBDA r : FGt(r.Bottom, MP_top))
CutTP(tp, MP_top) == SelectSeq(tp, LAMBDA r : FGe(r.Bottom, MP_top))

\* misc.py:297-301 - the single SKIRT point mass; its elevation and mass are
\* the floats of misc.py:285-291 and are not represented
SkirtPointmass == <<[Affiliation |-> "SKIRT", comment |-> "Skirt"]>>

\* misc.py:312 - Top of the first row of the MP+TP stack minus Bottom of the
\* last tower row
TowerOffset(whole, tower) == FSub(whole[1].Top, tower[Len(tower)].Bottom)

\* misc.py:313-314
ShiftTower(tower, off) ==
    [i \in 1..Len(tower) |->
        [tower[i] EXCEPT !.Top = FAdd(@, off), !.Bottom = FAdd(@, off)]]

\* misc.py:318-320 - Section becomes "local Section", the new Section is 1..N
Renumber(df) ==
    [i \in 1..Len(df) |-> [c \in DOMAIN df[i] \cup {"localSection"} |->
        IF c = "Section" THEN F(i)
        ELSE IF c = "localSection" THEN df[i].Section
        ELSE df[i][c]]]

\* misc.py:329-331 - tower masses move with the tower; Bottom only where
\* pd.to_numeric finds a number
ShiftMassesTopOnly(masses, off) ==
    [i \in 1..Len(masses) |-> [masses[i] EXCEPT !.Top = FAdd(@, off)]]
ShiftMasses(masses, off) ==
    [i \in 1..Len(masses) |->
        [masses[i] EXCEPT !.Top = FAdd(@, off),
                          !.Bottom = IF IsNum(@) THEN FAdd(@, off) ELSE @]]

\* misc.py:338 - sort_values(by Top, ascending=False) with the default
\* kind 'quicksort', which is not stable: every order of the rows with
\* non-increasing Top is a possible result, rows with equal Top in any order;
\* rows without a Top come last (na_position 'last')
Highest(df) ==
    LET numbered == {i \in 1..Len(df) : IsNum(df[i].Top)}
    IN  IF numbered = {} THEN 1..Len(df)
        ELSE {i \in numbered : \A j \in numbered : FGe(df[i].Top, df[j].Top)}
Without(df, i) == SubSeq(df, 1, i - 1) \o SubSeq(df, i + 1, Len(df))
RECURSIVE SortDesc(_)
SortDesc(df) ==
    IF df = <<>> THEN {<<>>}
    ELSE UNION {{<<df[i]>> \o rest : rest \in SortDesc(Without(df, i))} : i \in Highest(df)}

\* misc.py:333-338 - the tables ALL_MASSES may be after the sort
AllMassesUnsorted(mp, tp, tower) ==
    {InsertAffiliation(mp, "MP") \o InsertAffiliation(tp, "TP")
        \o InsertAffiliation(tower, "TOWER")}
AllMasses(mp, tp, tower) ==
    SortDesc(InsertAffiliation(mp, "MP") \o InsertAffiliation(tp, "TP")
             \o InsertAffiliation(tower, "TOWER"))

\* ex.write_df_to_table: the table sink maps a table name to the rows written
WriteTable(s, name, rows) ==
    [n \in DOMAIN s \cup {name} |-> IF n = name THEN rows ELSE s[n]]

\* ------------------------------------------------------------------- inputs
\* an integer cell as the sheet delivers it (the Section column)
IntCell(i) == [k |-> "int", n |-> i, d |-> 1]

\* <<top, bottom>> of one segment, top above bottom, elevations in 0..zmax
Spans(zmax) == {p \in (0..zmax) \X (0..zmax) : p[1] > p[2]}

\* segment layouts listed top to bottom; gaps and overlaps between
\* neighbouring rows occur
Layouts(zmax) ==
    UNION {{l \in [1..n -> Spans(zmax)] :
               \A i \in 1..(n - 1) : l[i][1] > l[i + 1][1] /\ l[i][2] > l[i + 1][2]}
           : n \in 1..MaxSeg}

\* a sheet row: the diameter widens with the elevation, 50 mm wall
SheetRow(i, span) ==
    [Section |-> IntCell(i), Top |-> F(span[1]), Bottom |-> F(span[2]),
     DTop |-> F(4 + span[1]), DBottom |-> F(4 + span[2]), t |-> F(50)]

SheetTable(l) == [i \in 1..Len(l) |-> SheetRow(i, l[i])]

\* what may be wrong with the cells of a table: nothing, a missing Top in
\* the first row, a thickness that is no number in the last row
Defects == {"none", "nan", "str"}
Spoil(tbl, defect) ==
    CASE defect = "nan" -> [tbl EXCEPT ![1].Top = NaN]
      [] defect = "str" -> [tbl EXCEPT ![Len(tbl)].t = Text]
      [] OTHER -> tbl

\* at most one of the three tables of a sheet is spoiled
DefectPlans ==
    {<<"none", "none", "none">>}
    \cup {<<d, "none", "none">> : d \in Defects}
    \cup {<<"none", d, "none">> : d \in Defects}
    \cup {<<"none", "none", d>> : d \in Defects}

\* RNA_DATA holds one identifier; the caller passes "", it, or another one
RNAIdentifiers == {"RNA_A"}
RNAConfigs == {"", "RNA_A", "RNA_X"}

\* a height reference is a tag or Python None
NoneRef == "None"
Refs == {NoneRef, "LAT", "MSL"}

\* the water depth of MP_META: None or a depth
NoneCell == [k |-> "none", n |-> 0, d |-> 1]
WaterDepths == {NoneCell, F(30)}

\* a cell read with dtype=str is a text: str(x) of a float x ("numtext"),
\* 'None' of an empty cell ("nonetext")
StrOf(c) ==
    CASE c.k = "num" -> [c EXCEPT !.k = "numtext"]
      [] c.k = "none" -> [c EXCEPT !.k = "nonetext"]
      [] OTHER -> c

\* misc.py:245 - float(x) as <<converted, value>>: a float is itself, the
\* text of a float is that float, any other text raises ValueError
PyFloat(c) ==
    CASE c.k = "num" -> <<TRUE, c>>
      [] c.k = "numtext" -> <<TRUE, [c EXCEPT !.k = "num"]>>
      [] OTHER -> <<FALSE, c>>

\* a Value cell of STRUCTURE_META holding a string
Str(s) == [k |-> "text", s |-> s]

\* the added-mass tables read from the sheet at misc.py:325-327
MassRow(top, bottom) == [Top |-> top, Bottom |-> bottom, Mass |-> F(1), comment |-> "m"]
MassInputs ==
    {[MP |-> <<>>, TP |-> <<>>, TOWER |-> <<>>],
     [MP |-> <<MassRow(F(1), Text)>>, TP |-> <<MassRow(F(2), F(1))>>,
      TOWER |-> <<MassRow(F(0), Text), MassRow(F(1), F(0))>>]}

\* -------------------------------------------------------------------- state
VARIABLES
    sheet,            \* BuildYourStructure: the three segment tables as entered
    pc,               \* position of the run of assemble_structure
    MP_DATA, TP_DATA, TOWER_DATA,     \* the run's local tables
    WHOLE_STRUCTURE,  \* the stack assembled so far
    STRUCTURE_META,   \* Parameter -> Value
    tower_offset,
    sink,             \* StructureOverview: table name -> rows written
    msgs,             \* message boxes shown
    answer,           \* the button pressed in the dialog of misc.py:232, "" before
    T, z, ret, ret2, calls,  \* a caller of add_element: table, height, results
    META,             \* the database: the rows of its META table
    tables,           \* the database: table name -> rows, META apart
    call,             \* the last call of a db element function and its result
    edits             \* operations made on the sheet before the run

runVars == <<sheet, pc, MP_DATA, TP_DATA, TOWER_DATA, WHOLE_STRUCTURE,
             STRUCTURE_META, tower_offset, sink, msgs, answer>>
addVars == <<T, z, ret, ret2, calls>>
dbVars == <<META, tables, call>>
vars == <<runVars, addVars, dbVars, edits>>

NoTable == <<>>
EmptySink == [n \in {} |-> <<>>]

\* misc.py:203-204 - STRUCTURE_META as read, every Value blanked
BlankMeta == [HeightReference |-> Str(""), SeabedLevel |-> Str("")]

RunIdle ==
    /\ pc = "idle" /\ sheet = NoTable
    /\ MP_DATA = NoTable /\ TP_DATA = NoTable /\ TOWER_DATA = NoTable
    /\ WHOLE_STRUCTURE = NoTable /\ STRUCTURE_META = BlankMeta
    /\ tower_offset = F(0) /\ sink = EmptySink /\ msgs = {} /\ answer = ""

AddIdle == T = NoTable /\ z = F(0) /\ ret = PyNone /\ ret2 = PyNone /\ calls = 0

NoCall == [op |-> "none", Identifier |-> "", old_id |-> "", ret |-> "None"]
DbIdle == META = <<>> /\ tables = EmptySink /\ call = NoCall

\* the run is about to start on some sheet
Init ==
    /\ \E mp \in Layouts(MaxZSide), tp \in Layouts(MaxZ), tw \in Layouts(MaxZSide),
          plan \in DefectPlans :
          sheet = [MP_DATA |-> Spoil(SheetTable(mp), plan[1]),
                   TP_DATA |-> Spoil(SheetTable(tp), plan[2]),
                   TOWER_DATA |-> Spoil(SheetTable(tw), plan[3])]
    /\ pc = "start"
    /\ MP_DATA = NoTable /\ TP_DATA = NoTable /\ TOWER_DATA = NoTable
    /\ WHOLE_STRUCTURE = NoTable /\ STRUCTURE_META = BlankMeta
    /\ tower_offset = F(0) /\ sink = EmptySink /\ msgs = {} /\ answer = ""
    /\ AddIdle /\ DbIdle /\ edits = 0

\* misc.py:195-212 - read the tables, check them, abort if any check failed
Validate ==
    /\ pc = "start"
    /\ LET rMP == check_convert_structure(sheet.MP_DATA)
           rTP == check_convert_structure(sheet.TP_DATA)
           rTOWER == check_convert_structure(sheet.TOWER_DATA)
       IN  /\ MP_DATA' = rMP[2]
           /\ TP_DATA' = rTP[2]
           /\ TOWER_DATA' = rTOWER[2]
           /\ msgs' = msgs \cup (IF rMP[1] THEN {} ELSE {"invalid data MP"})
                           \cup (IF rTP[1] THEN {} ELSE {"invalid data TP"})
                           \cup (IF rTOWER[1] THEN {} ELSE {"invalid data TOWER"})
           /\ pc' = IF AllSuccess(rMP[1], rTP[1], rTOWER[1]) THEN "rna" ELSE "aborted"
    /\ STRUCTURE_META' = BlankMeta
    /\ UNCHANGED <<sheet, WHOLE_STRUCTURE, tower_offset, sink, answer, addVars, dbVars, edits>>

\* misc.py:214-225 - the RNA row is written as soon as it is found
SelectRNA ==
    /\ pc = "rna"
    /\ \E RNA_config \in RNAConfigs :
          IF RNA_config = ""
          THEN /\ msgs' = msgs \cup {"no RNA selected"}
               /\ pc' = "href"
               /\ sink' = sink
          ELSE IF RNA_config \notin RNAIdentifiers
          THEN /\ msgs' = msgs \cup {"RNA not in dropdown, aborting"}
               /\ pc' = "aborted"
               /\ sink' = sink
          ELSE /\ sink' = WriteTable(sink, "RNA", <<[Identifier |-> RNA_config]>>)
               /\ pc' = "href"
               /\ msgs' = msgs
    /\ UNCHANGED <<sheet, MP_DATA, TP_DATA, TOWER_DATA, WHOLE_STRUCTURE,
                   STRUCTURE_META, tower_offset, answer, addVars, dbVars, edits>>

\* misc.py:239 - the first reference that is not None
FirstRef(values) == SelectSeq(values, LAMBDA v : v # NoneRef)[1]

\* misc.py:231-236 - the references differ and the dialog is answered No
DeclinedNever(same, button) == FALSE
Declined(same, button) == ~same /\ button = "No"

\* misc.py:227-248 - height reference, water depth, affiliation columns, for
\* the three references and the water depth read from the META tables and
\* the button pressed in the dialog of line 232, which is shown only when
\* the references differ
Reconcile(WL_ref_MP, WL_ref_MT, WL_ref_TOWER, water_depth, button) ==
    LET values == <<WL_ref_MP, WL_ref_MT, WL_ref_TOWER>>
        same == all_same_ignoring_none(values)
        allNone == \A i \in 1..3 : values[i] = NoneRef
        href == IF same THEN Str(FirstRef(values)) ELSE STRUCTURE_META.HeightReference
        shown == IF same THEN "height references same" ELSE "height references differ"
        depth == PyFloat(water_depth)
        seabed == IF water_depth # NoneCell THEN FSub(F(0), depth[2])
                  ELSE STRUCTURE_META.SeabedLevel
    IN  /\ answer' = IF same THEN answer ELSE button
        /\ IF Declined(same, button)
           THEN /\ pc' = "aborted"
                /\ msgs' = msgs \cup {"height references differ"}
                /\ UNCHANGED <<STRUCTURE_META, MP_DATA, TP_DATA, TOWER_DATA>>
           ELSE IF same /\ allNone
           THEN \* misc.py:239 - [0] of an empty list: IndexError
                /\ pc' = "crashed"
                /\ UNCHANGED <<msgs, STRUCTURE_META, MP_DATA, TP_DATA, TOWER_DATA>>
           ELSE IF water_depth # NoneCell /\ ~depth[1]
           THEN \* misc.py:245 - float of a text that is no number: ValueError,
                \* after the reference was handled
                /\ pc' = "crashed"
                /\ msgs' = msgs \cup {shown}
                /\ STRUCTURE_META' = [STRUCTURE_META EXCEPT !.HeightReference = href]
                /\ UNCHANGED <<MP_DATA, TP_DATA, TOWER_DATA>>
           ELSE /\ pc' = "junction"
                /\ msgs' = msgs \cup {shown}
                /\ STRUCTURE_META' = [HeightReference |-> href, SeabedLevel |-> seabed]
                /\ MP_DATA' = InsertAffiliation(MP_DATA, "MP")
                /\ TP_DATA' = InsertAffiliation(TP_DATA, "TP")
                /\ TOWER_DATA' = InsertAffiliation(TOWER_DATA, "TOWER")

\* misc.py:227-248 - the META cells are whatever the sheet holds when they
\* are read
ReconcileDatum ==
    /\ pc = "href"
    /\ \E WL_ref_MP \in Refs, WL_ref_MT \in Refs, WL_ref_TOWER \in Refs,
          water_depth \in WaterDepths, button \in {"Yes", "No"} :
          Reconcile(WL_ref_MP, WL_ref_MT, WL_ref_TOWER, water_depth, button)
    /\ UNCHANGED <<sheet, WHOLE_STRUCTURE, tower_offset, sink, addVars, dbVars, edits>>

\* misc.py:251-252, 267-268
MPTop(mp) == mp[1].Top
TPBot(tp) == tp[Len(tp)].Bottom

\* misc.py:251-252 - range_MP and range_TP take the last Bottom of the MP and
\* of the TP, which a table without rows does not have
HasRanges == Len(MP_DATA) > 0 /\ Len(TP_DATA) > 0

\* misc.py:255-258 - the TP hovers over the MP: report the gap and abort
JunctionGap ==
    /\ pc = "junction"
    /\ HasRanges
    /\ FLt(MPTop(MP_DATA), TPBot(TP_DATA))
    /\ msgs' = msgs \cup {"TP hovering over MP, aborting"}
    /\ pc' = "aborted"
    /\ UNCHANGED <<sheet, MP_DATA, TP_DATA, TOWER_DATA, WHOLE_STRUCTURE,
                   STRUCTURE_META, tower_offset, sink, answer, addVars, dbVars, edits>>

\* misc.py:306-309 - MP_top == TP_bot: the TP goes on top of the MP
JunctionFit ==
    /\ pc = "junction"
    /\ HasRanges
    /\ ~FLt(MPTop(MP_DATA), TPBot(TP_DATA))
    /\ ~FGt(MPTop(MP_DATA), TPBot(TP_DATA))
    /\ msgs' = msgs \cup {"MP and TP fit perfectly"}
    /\ WHOLE_STRUCTURE' = TP_DATA \o MP_DATA
    /\ pc' = "tower"
    /\ UNCHANGED <<sheet, MP_DATA, TP_DATA, TOWER_DATA, STRUCTURE_META,
                   tower_offset, sink, answer, addVars, dbVars, edits>>

\* misc.py:270-278 - overlap, answer Yes (grouted connection): a message is
\* shown and the run goes on with the MP alone as the stack
JunctionGrouted ==
    /\ pc = "junction"
    /\ HasRanges
    /\ ~FLt(MPTop(MP_DATA), TPBot(TP_DATA))
    /\ FGt(MPTop(MP_DATA), TPBot(TP_DATA))
    /\ msgs' = msgs \cup {"overlap: grouted or skirt?", "under construction"}
    /\ WHOLE_STRUCTURE' = MP_DATA
    /\ pc' = "tower"
    /\ UNCHANGED <<sheet, MP_DATA, TP_DATA, TOWER_DATA, STRUCTURE_META,
                   tower_offset, sink, answer, addVars, dbVars, edits>>

\* misc.py:270-304 - overlap, answer No (skirt): node at MP_top, the rows at
\* or below it leave the TP as the SKIRT
JunctionSkirt ==
    /\ pc = "junction"
    /\ HasRanges
    /\ ~FLt(MPTop(MP_DATA), TPBot(TP_DATA))
    /\ FGt(MPTop(MP_DATA), TPBot(TP_DATA))
    /\ LET MP_top == MPTop(MP_DATA)
           r == add_element(TP_DATA, MP_top)
           SKIRT == SkirtRows(r.df, MP_top)
           cut == CutTP(r.df, MP_top)
       IN  /\ msgs' = msgs \cup {"overlap: grouted or skirt?"}
           /\ IF r.type = "NoneType"
              THEN \* misc.py:282 - None has no .loc: AttributeError; the
                   \* assignments of lines 259 and 281 are done
                   /\ pc' = "crashed"
                   /\ TP_DATA' = r.df
                   /\ WHOLE_STRUCTURE' = MP_DATA
                   /\ UNCHANGED sink
              ELSE IF Len(SKIRT) = 0
              THEN \* misc.py:291 - the sums of no weights are the integer 0:
                   \* 0 / 0 raises ZeroDivisionError; the assignments of
                   \* lines 259 and 281 are done
                   /\ pc' = "crashed"
                   /\ TP_DATA' = r.df
                   /\ WHOLE_STRUCTURE' = MP_DATA
                   /\ UNCHANGED sink
              ELSE /\ TP_DATA' = cut
                   /\ WHOLE_STRUCTURE' = cut \o MP_DATA
                   /\ sink' = WriteTable(WriteTable(sink, "SKIRT", SKIRT),
                                         "SKIRT_POINTMASS", SkirtPointmass)
                   /\ pc' = "tower"
    /\ UNCHANGED <<sheet, MP_DATA, TOWER_DATA, STRUCTURE_META, tower_offset, answer, addVars, dbVars, edits>>

\* misc.py:311-321 - the tower is moved onto the stack, the sections are
\* renumbered, WHOLE_STRUCTURE is written
AddTower ==
    /\ pc = "tower"
    /\ IF Len(TOWER_DATA) = 0
       THEN \* misc.py:312 - the last Bottom of a tower without rows: IndexError
            /\ pc' = "crashed"
            /\ UNCHANGED <<tower_offset, TOWER_DATA, WHOLE_STRUCTURE, sink>>
       ELSE LET off == TowerOffset(WHOLE_STRUCTURE, TOWER_DATA)
                tower == ShiftTower(TOWER_DATA, off)
                whole == Renumber(tower \o WHOLE_STRUCTURE)
            IN  /\ tower_offset' = off
                /\ TOWER_DATA' = tower
                /\ WHOLE_STRUCTURE' = whole
                /\ sink' = WriteTable(sink, "WHOLE_STRUCTURE", whole)
                /\ pc' = "masses"
    /\ UNCHANGED <<sheet, MP_DATA, TP_DATA, STRUCTURE_META, msgs, answer, addVars, dbVars, edits>>

\* misc.py:323-343 - the added masses are read, merged and written, then the
\* metadata
Merge(m) ==
    /\ \E ALL_MASSES \in AllMasses(m.MP, m.TP, ShiftMasses(m.TOWER, tower_offset)) :
          sink' = WriteTable(WriteTable(sink, "ALL_ADDED_MASSES", ALL_MASSES),
                             "STRUCTURE_META", STRUCTURE_META)
    /\ pc' = "done"

\* misc.py:323-343 - the mass tables are whatever the sheet holds when they
\* are read
MergeMasses ==
    /\ pc = "masses"
    /\ \E m \in MassInputs : Merge(m)
    /\ UNCHANGED <<sheet, MP_DATA, TP_DATA, TOWER_DATA, WHOLE_STRUCTURE,
                   STRUCTURE_META, tower_offset, msgs, answer, addVars, dbVars, edits>>

Next ==
    \/ Validate
    \/ SelectRNA
    \/ ReconcileDatum
    \/ JunctionGap
    \/ JunctionFit
    \/ JunctionGrouted
    \/ JunctionSkirt
    \/ AddTower
    \/ MergeMasses

Spec == Init /\ [][Next]_vars

\* ------------------------------------- sheets with rows in any order
\* check_convert_structure lets every table of numbers through
\* (misc.py:35), so the rows of a sheet reach the assembly in the order they
\* were typed in: each table has 1..MaxSeg rows, every row with its top
\* above its bottom, in any order
InitEntered ==
    /\ \E nMP \in 1..MaxSeg, nTP \in 1..MaxSeg, nTW \in 1..MaxSeg :
          \E mp \in [1..nMP -> Spans(MaxZSide)], tp \in [1..nTP -> Spans(MaxZ)],
             tw \in [1..nTW -> Spans(MaxZSide)] :
             sheet = [MP_DATA |-> SheetTable(mp),
                      TP_DATA |-> SheetTable(tp),
                      TOWER_DATA |-> SheetTable(tw)]
    /\ pc = "start"
    /\ MP_DATA = NoTable /\ TP_DATA = NoTable /\ TOWER_DATA = NoTable
    /\ WHOLE_STRUCTURE = NoTable /\ STRUCTURE_META = BlankMeta
    /\ tower_offset = F(0) /\ sink = EmptySink /\ msgs = {} /\ answer = ""
    /\ AddIdle /\ DbIdle /\ edits = 0

SpecEntered == InitEntered /\ [][Next]_vars

\* ------------------------------------- sheets with decimal elevations
\* the elevations of a sheet are floats as the cells hold them: the level
\* e of a layout stands at (3e - 5)/10 m, that is at -0.5, -0.2, 0.1 and
\* 0.4 m, each the float nearest to it
Decimal(e) == Nearest(3 * e - 5, 10)
DecimalTable(l) ==
    [i \in 1..Len(l) |-> [SheetRow(i, l[i]) EXCEPT !.Top = Decimal(l[i][1]),
                                                   !.Bottom = Decimal(l[i][2])]]

\* the tables are listed top to bottom and hold numbers only; the MP top is
\* a node of the TP or lies outside its rows, so that add_element has no
\* diameter to interpolate
InitDecimal ==
    /\ \E mp \in Layouts(MaxZSide), tp \in Layouts(MaxZ), tw \in Layouts(MaxZSide) :
          /\ \A i \in 1..Len(tp) : ~(tp[i][1] > mp[1][1] /\ mp[1][1] > tp[i][2])
          /\ sheet = [MP_DATA |-> DecimalTable(mp),
                      TP_DATA |-> DecimalTable(tp),
                      TOWER_DATA |-> DecimalTable(tw)]
    /\ pc = "start"
    /\ MP_DATA = NoTable /\ TP_DATA = NoTable /\ TOWER_DATA = NoTable
    /\ WHOLE_STRUCTURE = NoTable /\ STRUCTURE_META = BlankMeta
    /\ tower_offset = F(0) /\ sink = EmptySink /\ msgs = {} /\ answer = ""
    /\ AddIdle /\ DbIdle /\ edits = 0

SpecDecimal == InitDecimal /\ [][Next]_vars

\* ------------------------------------------ the mass stage on its own
\* the added-mass stage (misc.py:323-343) as a function of tower_offset and
\* of the three mass tables of the sheet: a mass has a numeric top_m; its
\* bottom_m is a number, absent (NaN) or a text
MassBottoms == {F(0), NaN, Text}
MassRows == {MassRow(F(top), b) : top \in 0..MaxMassTop, b \in MassBottoms}
Offsets == {F(-1), F(0), F(1)}

InitMass ==
    /\ \E nMP \in 0..1, nTP \in 0..1, nTW \in 0..MaxMass :
          \E mp \in [1..nMP -> MassRows], tp \in [1..nTP -> MassRows],
             tw \in [1..nTW -> MassRows] :
             sheet = [MP_MASSES |-> mp, TP_MASSES |-> tp, TOWER_MASSES |-> tw]
    /\ tower_offset \in Offsets
    /\ pc = "masses"
    /\ MP_DATA = NoTable /\ TP_DATA = NoTable /\ TOWER_DATA = NoTable
    /\ WHOLE_STRUCTURE = NoTable /\ STRUCTURE_META = BlankMeta
    /\ sink = EmptySink /\ msgs = {} /\ answer = ""
    /\ AddIdle /\ DbIdle /\ edits = 0

\* misc.py:323-343 - the mass tables are those of the sheet
MergeGiven ==
    /\ pc = "masses"
    /\ Merge([MP |-> sheet.MP_MASSES, TP |-> sheet.TP_MASSES, TOWER |-> sheet.TOWER_MASSES])
    /\ UNCHANGED <<sheet, MP_DATA, TP_DATA, TOWER_DATA, WHOLE_STRUCTURE,
                   STRUCTURE_META, tower_offset, msgs, answer, addVars, dbVars, edits>>

NextMass == MergeGiven

SpecMass == InitMass /\ [][NextMass]_vars

\* ------------------------------------------------- add_element on its own
\* the tables handed to add_element: 1..MaxSeg rows in any order, tapered or
\* straight; thickness and affiliation differ from row to row
Diameters == {F(4), F(6)}
AddRow(i, span, dt, db) ==
    [Affiliation |-> IF i % 2 = 1 THEN "TP" ELSE "MP",
     Section |-> F(i), Top |-> F(span[1]), Bottom |-> F(span[2]),
     DTop |-> dt, DBottom |-> db, t |-> F(40 + 10 * i)]
AddTable(l, dt, db) == [i \in 1..Len(l) |-> AddRow(i, l[i], dt[i], db[i])]

InitAdd ==
    /\ RunIdle /\ edits = 0
    /\ \E n \in 1..MaxSeg :
          \E l \in [1..n -> Spans(MaxZ)], dt \in [1..n -> Diameters],
             db \in [1..n -> Diameters] : T = AddTable(l, dt, db)
    /\ z \in {F(e) : e \in 0..MaxZ}
    /\ ret = PyNone /\ ret2 = PyNone /\ calls = 0
    /\ DbIdle

\* ret = add_element(T, z)
CallAdd ==
    /\ calls = 0
    /\ ret' = add_element(T, z)
    /\ calls' = 1
    /\ UNCHANGED <<T, z, ret2, runVars, dbVars, edits>>

\* ret2 = add_element(ret, z): the same height once more
CallAddAgain ==
    /\ calls = 1
    /\ ret.type = "DataFrame"
    /\ ret2' = add_element(ret.df, z)
    /\ calls' = 2
    /\ UNCHANGED <<T, z, ret, runVars, dbVars, edits>>

NextAdd == CallAdd \/ CallAddAgain

SpecAdd == InitAdd /\ [][NextAdd]_vars

\* ------------------------------------------------- the element database
\* db_handling.py: one sqlite file with the table META (one row per stored
\* structure) and, per structure, the tables <Identifier> and
\* <Identifier>__ADDED_MASSES
Ids == {"A", "B"}
TableOf(Identifier) == [id |-> Identifier, suffix |-> ""]
MassesOf(Identifier) == [id |-> Identifier, suffix |-> "__ADDED_MASSES"]

\* what the callers hand over: a one-row Meta_infos, structure data with or
\* without a missing cell, added masses
MetaInfos == {[Identifier |-> id, info |-> v] : id \in Ids, v \in {"v1", "v2"}}
StructureDatas ==
    {SheetTable(<< <<1, 0>> >>), SheetTable(<< <<2, 0>> >>),
     Spoil(SheetTable(<< <<1, 0>> >>), "nan")}
MassDatas == {<<>>, <<MassRow(F(1), Text)>>}

\* db_handling.py:37 - DROP TABLE IF EXISTS
drop_db_table(tb, name) == [n \in DOMAIN tb \ {name} |-> tb[n]]

\* db_handling.py:122-126 - df.to_sql: with if_exists 'fail' an existing
\* table raises ConciveError, with 'replace' it is overwritten
create_db_table(tb, name, df, if_exists) ==
    IF if_exists = "fail" /\ name \in DOMAIN tb
    THEN [ok |-> FALSE, tables |-> tb]
    ELSE [ok |-> TRUE, tables |-> WriteTable(tb, name, df)]

\* db_handling.py:135-136 - Identifier in META["Identifier"].values
InMETA(M, Identifier) == \E i \in 1..Len(M) : M[i].Identifier = Identifier

\* db_handling.py:170 - value_counts of the new identifier above 1
AlreadyTaken(M, new_id) ==
    Cardinality({i \in 1..Len(M) : M[i].Identifier = new_id}) > 1

\* db_handling.py:189 - pd.isna(Structure_data.values).any()
AnyNa(Structure_data) == \E x \in Cells(Structure_data) : x.k = "nan"

\* db_handling.py:188-200 - <<success, tables>>
write_db_element_data(tb, change_id, Structure_data, added_masses_data) ==
    IF AnyNa(Structure_data) THEN [ok |-> FALSE, tables |-> tb]
    ELSE [ok |-> TRUE,
          tables |-> create_db_table(
                         create_db_table(tb, TableOf(change_id), Structure_data, "replace").tables,
                         MassesOf(change_id), added_masses_data, "replace").tables]

Called(op, Identifier, old_id, result) ==
    call' = [op |-> op, Identifier |-> Identifier, old_id |-> old_id, ret |-> result]

\* db_handling.py:131-148
add_db_element(Structure_data, added_masses_data, Meta_infos) ==
    LET Identifier == Meta_infos.Identifier
        c1 == create_db_table(tables, TableOf(Identifier), Structure_data, "fail")
        c2 == create_db_table(c1.tables, MassesOf(Identifier), added_masses_data, "fail")
    IN  IF InMETA(META, Identifier)
        THEN /\ Called("add", Identifier, "", "False")
             /\ UNCHANGED <<META, tables>>
        ELSE IF ~c1.ok
        THEN /\ Called("add", Identifier, "", "ConciveError")
             /\ UNCHANGED <<META, tables>>
        ELSE IF ~c2.ok
        THEN /\ Called("add", Identifier, "", "ConciveError")
             /\ tables' = c1.tables
             /\ UNCHANGED META
        ELSE /\ Called("add", Identifier, "", "True")
             /\ tables' = c2.tables
             /\ META' = Append(META, Meta_infos)

\* db_handling.py:151-160
delete_db_element(Identifier) ==
    /\ META' = SelectSeq(META, LAMBDA r : r.Identifier # Identifier)
    /\ tables' = drop_db_table(drop_db_table(tables, TableOf(Identifier)), MassesOf(Identifier))
    /\ Called("delete", Identifier, "", "None")

\* db_handling.py:163-185
replace_db_element(Structure_data, added_masses_data, Meta_infos, old_id) ==
    LET new_id == Meta_infos.Identifier
        replaced == [i \in 1..Len(META) |->
                        IF META[i].Identifier = old_id THEN Meta_infos ELSE META[i]]
        dropped == drop_db_table(tables, TableOf(old_id))
        w == write_db_element_data(dropped, new_id, Structure_data, added_masses_data)
    IN  IF AlreadyTaken(replaced, new_id)
        THEN /\ Called("replace", new_id, old_id, "False")
             /\ UNCHANGED <<META, tables>>
        ELSE IF ~w.ok
        THEN /\ Called("replace", new_id, old_id, "False")
             /\ tables' = dropped
             /\ UNCHANGED META
        ELSE /\ Called("replace", new_id, old_id, "True")
             /\ tables' = w.tables
             /\ META' = replaced

\* a database in which every META row has its two tables and there is no
\* other table
InitDb ==
    /\ RunIdle /\ AddIdle /\ edits = 0
    /\ \E n \in 0..Cardinality(Ids) :
          \E f \in [1..n -> Ids] :
             /\ \A i \in 1..n, j \in 1..n : f[i] = f[j] => i = j
             /\ META = [i \in 1..n |-> [Identifier |-> f[i], info |-> "v1"]]
             /\ tables = [name \in {TableOf(f[i]) : i \in 1..n} \cup {MassesOf(f[i]) : i \in 1..n} |->
                             IF name.suffix = "" THEN SheetTable(<< <<1, 0>> >>) ELSE <<>>]
    /\ call = NoCall

AddElement ==
    /\ \E Structure_data \in StructureDatas, added_masses_data \in MassDatas,
          Meta_infos \in MetaInfos :
          add_db_element(Structure_data, added_masses_data, Meta_infos)
    /\ UNCHANGED <<runVars, addVars, edits>>

DeleteElement ==
    /\ \E Identifier \in Ids : delete_db_element(Identifier)
    /\ UNCHANGED <<runVars, addVars, edits>>

ReplaceElement ==
    /\ \E Structure_data \in StructureDatas, added_masses_data \in MassDatas,
          Meta_infos \in MetaInfos, old_id \in Ids :
          replace_db_element(Structure_data, added_masses_data, Meta_infos, old_id)
    /\ UNCHANGED <<runVars, addVars, edits>>

WriteElementData ==
    /\ \E Structure_data \in StructureDatas, added_masses_data \in MassDatas,
          change_id \in Ids :
          LET w == write_db_element_data(tables, change_id, Structure_data, added_masses_data)
          IN  /\ tables' = w.tables
              /\ Called("write", change_id, "", IF w.ok THEN "True" ELSE "False")
    /\ UNCHANGED <<META, runVars, addVars, edits>>

NextDb == AddElement \/ DeleteElement \/ ReplaceElement \/ WriteElementData

SpecDb == InitDb /\ [][NextDb]_vars

\* ----------------------------- the whole sheet, edited and then assembled
\* BuildYourStructure with, per structure, the segment table, the META
\* table and the added masses, and the database behind it. Before a run the
\* MP and the TP may be moved (misc.py:346-380) and a structure may be
\* loaded, saved, deleted or read from an MP tool file (db_handling.py)
SheetStructures == {"MP", "TP", "TOWER"}

\* a row of a META table: the columns the code names, Identifier, Height
\* Reference and Water Depth [m]
MetaRow(id, ref, depth) ==
    [Identifier |-> id, HeightReference |-> ref, WaterDepth |-> depth]

\* db_handling.py:315, 318, 369 - the text 'None', which a cell without a
\* value reads as under dtype=str
NoneText == "'None'"

\* a META table read with dtype=str (misc.py:352, db_handling.py:354-355):
\* every cell is a text
StrRef(v) == IF v = NoneRef THEN NoneText ELSE v
ReadStr(tbl) ==
    [i \in 1..Len(tbl) |-> MetaRow(StrRef(tbl[i].Identifier),
                                   StrRef(tbl[i].HeightReference),
                                   StrOf(tbl[i].WaterDepth))]

\* the database behind the sheet: one stored element; a row of META was
\* handed over by save_data, which reads it with dtype=str
StoredMETA == ReadStr(<<MetaRow("A", "LAT", F(30))>>)
StoredTables ==
    WriteTable(WriteTable(EmptySink, TableOf("A"), SheetTable(<< <<1, 0>> >>)),
               MassesOf("A"), <<MassRow(F(1), Text)>>)

InitSheet ==
    /\ \E tp \in Layouts(MaxZSide), r \in Refs \X Refs \X Refs,
          water_depth \in WaterDepths :
          sheet = [MP_DATA |-> SheetTable(<< <<1, 0>> >>),
                   TP_DATA |-> SheetTable(tp),
                   TOWER_DATA |-> SheetTable(<< <<1, 0>> >>),
                   MP_META |-> <<MetaRow("A", r[1], water_depth)>>,
                   TP_META |-> <<MetaRow("A", r[2], NoneCell)>>,
                   TOWER_META |-> <<MetaRow("A", r[3], NoneCell)>>,
                   MP_MASSES |-> <<MassRow(F(1), F(0))>>,
                   TP_MASSES |-> <<MassRow(F(2), NaN)>>,
                   TOWER_MASSES |-> <<MassRow(F(1), Text)>>]
    /\ pc = "start"
    /\ MP_DATA = NoTable /\ TP_DATA = NoTable /\ TOWER_DATA = NoTable
    /\ WHOLE_STRUCTURE = NoTable /\ STRUCTURE_META = BlankMeta
    /\ tower_offset = F(0) /\ sink = EmptySink /\ msgs = {} /\ answer = ""
    /\ AddIdle
    /\ META = StoredMETA /\ tables = StoredTables /\ call = NoCall
    /\ edits = 0

\* a table read with dtype=float: a text cell does not convert
HasText(df) == \E i \in 1..Len(df) : \E c \in DOMAIN df[i] : df[i][c].k = "str"
FloatData(df) == [i \in 1..Len(df) |-> [c \in DOMAIN df[i] |-> AsFloat(df[i][c])]]

\* misc.py:347-351 - float(displ): the displacement typed in, or no number
Displacements == {F(1), F(-1), Text}

\* a float plus displ; a missing cell stays missing
Displaced(c, displ) == IF c.k = "nan" THEN c ELSE FAdd(c, displ)

\* misc.py:353, 357-358 - the table read with dtype=float, Top and Bottom
\* of every row moved by displ
MoveData(DATA_CURR, displ) ==
    [i \in 1..Len(DATA_CURR) |->
        [c \in DOMAIN DATA_CURR[i] |->
            IF c \in {"Top", "Bottom"} THEN Displaced(AsFloat(DATA_CURR[i][c]), displ)
            ELSE AsFloat(DATA_CURR[i][c])]]

\* misc.py:356 - the Height Reference of every row of META_CURR becomes
\* None; the other cells stay the texts that were read
MoveMeta(META_CURR) ==
    [i \in 1..Len(META_CURR) |-> [META_CURR[i] EXCEPT !.HeightReference = NoneRef]]

\* misc.py:359-360 - Top and Bottom of every mass moved by displ
MoveMasses(MASSES_CURR, displ) ==
    [i \in 1..Len(MASSES_CURR) |->
        [MASSES_CURR[i] EXCEPT !.Top = Displaced(@, displ),
                               !.Bottom = Displaced(@, displ)]]

\* misc.py:346-364 - move_structure; a displacement that is no number is
\* reported; a segment cell that is no float (line 353) or a mass whose Top
\* or Bottom is a text (lines 359-360, TypeError) ends the call before
\* anything is written; the META table goes back as it was read with
\* dtype=str (line 352), its Height Reference None
move_structure(displ, Structure) ==
    LET data == Structure \o "_DATA"
        meta == Structure \o "_META"
        masses == Structure \o "_MASSES"
    IN  IF ~IsNum(displ)
        THEN /\ msgs' = msgs \cup {"Please enter a valid float value for the displacement."}
             /\ sheet' = sheet
        ELSE IF \/ HasText(sheet[data])
                \/ \E i \in 1..Len(sheet[masses]) :
                      sheet[masses][i].Top.k = "str" \/ sheet[masses][i].Bottom.k = "str"
        THEN UNCHANGED <<msgs, sheet>>
        ELSE /\ sheet' = [sheet EXCEPT ![data] = MoveData(@, displ),
                                       ![meta] = MoveMeta(ReadStr(@)),
                                       ![masses] = MoveMasses(@, displ)]
             /\ msgs' = msgs

\* the sheet is edited before the run, by at most MaxEdits operations
Edit == pc = "start" /\ edits < MaxEdits /\ edits' = edits + 1

\* misc.py:367-380 - move_structure_MP, move_structure_TP
MoveStructure ==
    /\ Edit
    /\ \E displ \in Displacements, Structure \in {"MP", "TP"} :
          move_structure(displ, Structure)
    /\ UNCHANGED <<pc, MP_DATA, TP_DATA, TOWER_DATA, WHOLE_STRUCTURE, STRUCTURE_META,
                   tower_offset, sink, answer, addVars, dbVars>>

\* db_handling.py:249-251 - load_db_table of the two tables of the element;
\* a table the database does not have raises ConciveError
Loadable(tb, Structure_name) ==
    {TableOf(Structure_name), MassesOf(Structure_name)} \subseteq DOMAIN tb

\* db_handling.py:253 - the rows of META with the identifier
MetaRelevant(M, Structure_name) ==
    SelectSeq(M, LAMBDA r : r.Identifier = Structure_name)

\* db_handling.py:233-263 - load_DATA on the database M, tb: the META row,
\* the structure table and the added masses of the element are written to
\* the sheet; nothing is written when a table is missing
load_DATA(Structure, Structure_name, M, tb) ==
    IF ~Loadable(tb, Structure_name) THEN UNCHANGED sheet
    ELSE sheet' = [sheet EXCEPT ![Structure \o "_META"] = MetaRelevant(M, Structure_name),
                                ![Structure \o "_DATA"] = tb[TableOf(Structure_name)],
                                ![Structure \o "_MASSES"] = tb[MassesOf(Structure_name)]]

\* db_handling.py:419-432, 494-507, 537-550 - load_MP_DATA, load_TP_DATA,
\* load_TOWER_DATA
LoadData ==
    /\ Edit
    /\ \E Structure \in SheetStructures, Structure_name \in Ids :
          load_DATA(Structure, Structure_name, META, tables)
    /\ UNCHANGED <<pc, MP_DATA, TP_DATA, TOWER_DATA, WHOLE_STRUCTURE, STRUCTURE_META,
                   tower_offset, sink, msgs, answer, addVars, dbVars>>

\* db_handling.py:393-399 - clear_excel_table_contents: what an emptied table
\* reads as is left to the excel helper: no rows, or one row of missing cells
Emptyings == {"none", "blank"}
EmptiedData(e) == IF e = "none" THEN <<>> ELSE <<[c \in DataCols |-> NaN]>>
EmptiedMeta(e) == IF e = "none" THEN <<>> ELSE <<MetaRow(NoneRef, NoneRef, NoneCell)>>
EmptiedMasses(e) ==
    IF e = "none" THEN <<>>
    ELSE <<[Top |-> NaN, Bottom |-> NaN, Mass |-> NaN, comment |-> ""]>>

\* db_handling.py:383-401 - delete_data: after the answer Yes the element
\* leaves the database and the three tables of the structure are emptied
delete_data(Structure, selected_structure, button) ==
    IF button # "Yes" THEN UNCHANGED <<sheet, dbVars>>
    ELSE /\ delete_db_element(selected_structure)
         /\ \E e \in Emptyings :
               sheet' = [sheet EXCEPT ![Structure \o "_META"] = EmptiedMeta(e),
                                      ![Structure \o "_DATA"] = EmptiedData(e),
                                      ![Structure \o "_MASSES"] = EmptiedMasses(e)]

\* db_handling.py:441-442, 516-517, 559-560 - delete_MP_data, delete_TP_data,
\* delete_TOWER_data
DeleteData ==
    /\ Edit
    /\ \E Structure \in SheetStructures, selected_structure \in Ids,
          button \in {"Yes", "No"} :
          delete_data(Structure, selected_structure, button)
    /\ UNCHANGED <<pc, MP_DATA, TP_DATA, TOWER_DATA, WHOLE_STRUCTURE, STRUCTURE_META,
                   tower_offset, sink, msgs, answer, addVars>>

\* db_handling.py:359-360 - dropna(how='all'): rows of missing cells go
DropNaData(df) == SelectSeq(df, LAMBDA r : \E c \in DOMAIN r : r[c].k # "nan")
DropNaMasses(df) ==
    SelectSeq(df, LAMBDA r : ~(r.Top.k = "nan" /\ r.Bottom.k = "nan"
                               /\ r.Mass.k = "nan" /\ r.comment = ""))

\* db_handling.py:355 - the META_NEW table as typed in, read with
\* dtype=str: nothing, the Identifier only, the Identifier and the Height
\* Reference, the Water Depth only, every cell
NewMetas ==
    {ReadStr(<<MetaRow(NoneRef, NoneRef, NoneCell)>>)[1],
     ReadStr(<<MetaRow("B", NoneRef, NoneCell)>>)[1],
     ReadStr(<<MetaRow("B", "MSL", NoneCell)>>)[1],
     ReadStr(<<MetaRow(NoneRef, NoneRef, F(30))>>)[1],
     ReadStr(<<MetaRow("B", "MSL", F(30))>>)[1]}

\* the columns of a META table in their order; values[0] of a table is its
\* first row as the list of its cells in this order
MetaCols == <<"Identifier", "HeightReference", "WaterDepth">>

\* db_handling.py:315, 318, 369 - values[0][0:-2] != 'None': the cells of
\* the row but its last two that are the text 'None'
TextNone(row) ==
    {i \in 1..(Len(MetaCols) - 2) :
        IF MetaCols[i] = "WaterDepth" THEN row[MetaCols[i]].k = "nonetext"
        ELSE row[MetaCols[i]] = NoneText}
\* db_handling.py:331 - values[0][0:-1] != None: the cells of the row but
\* its last that are None
IsNone(row) ==
    {i \in 1..(Len(MetaCols) - 1) :
        IF MetaCols[i] = "WaterDepth" THEN row[MetaCols[i]].k = "none"
        ELSE row[MetaCols[i]] = NoneRef}
\* db_handling.py:315 - any; lines 318, 369 - all
NewPopulated(row) == TextNone(row) # 1..(Len(MetaCols) - 2)
NewFull(row) == TextNone(row) = {}

\* the message boxes of add_db_element (lines 137, 146), replace_db_element
\* (lines 171, 183) and of the load that follows a save
SaveMessages(c) ==
    IF c.op = "add" /\ c.ret = "False" THEN {"Identifier already in the database"}
    ELSE IF c.op = "add" /\ c.ret = "True" THEN {"Data saved in new Database entry"}
    ELSE IF c.op = "replace" /\ c.ret = "True" THEN {"Data overwriten"}
    ELSE IF c.op = "replace" /\ c.ret = "False" THEN {"Identifier already taken in database"}
    ELSE {}

\* db_handling.py:377-380 - after a save that succeeded the element is
\* loaded from the database as it is now
Saved(Structure, structure_load_after) ==
    /\ msgs' = msgs \cup SaveMessages(call')
    /\ IF call'.ret = "True"
       THEN load_DATA(Structure, structure_load_after, META', tables')
       ELSE UNCHANGED sheet

\* a message box and nothing else; an exception and nothing else
Refused(m) == msgs' = msgs \cup {m} /\ UNCHANGED <<sheet, dbVars>>
Raised == UNCHANGED <<sheet, msgs, dbVars>>

\* db_handling.py:266-380 - save_data with saving_logic, for the META_NEW row
\* on the sheet; META_CURR is read with dtype=str, so none of its cells is
\* None and the test of line 331 lets every row through
save_data(Structure, selected_structure, META_CURR_NEW) ==
    LET META_CURR == ReadStr(sheet[Structure \o "_META"])
        DATA_READ == sheet[Structure \o "_DATA"]
        DATA_CURR == DropNaData(FloatData(DATA_READ))
        MASSES_CURR == DropNaMasses(sheet[Structure \o "_MASSES"])
        DATA_DB == FloatData(tables[TableOf(selected_structure)])
        MASSES_DB == tables[MassesOf(selected_structure)]
        META_DB == MetaRelevant(META, selected_structure)
        data_changed == DATA_DB # DATA_CURR \/ MASSES_DB # MASSES_CURR
        meta_loaded_changed ==
            \E i \in 1..(Len(MetaCols) - 1) :
               META_DB[1][MetaCols[i]] # META_CURR[1][MetaCols[i]]
        success == valid_data(DATA_CURR)[1]
    IN  IF HasText(DATA_READ) THEN Raised
        ELSE IF selected_structure = ""
        THEN \* lines 368-375
             IF ~NewFull(META_CURR_NEW)
             THEN Refused("Please fully populate the NEW Meta table")
             ELSE /\ add_db_element(DATA_CURR, MASSES_CURR, META_CURR_NEW)
                  /\ Saved(Structure, META_CURR_NEW.Identifier)
        ELSE IF ~Loadable(tables, selected_structure) THEN Raised
        ELSE IF ~success
        THEN Refused("Invalid data found in Structure data! Aborting.")
        ELSE IF META_DB = <<>> \/ META_CURR = <<>>
        THEN \* line 314 - values[0] of a table without rows: IndexError
             Raised
        ELSE IF NewPopulated(META_CURR_NEW)
        THEN IF ~NewFull(META_CURR_NEW)
             THEN Refused("Please fully populate the NEW Meta table")
             ELSE /\ add_db_element(DATA_CURR, MASSES_CURR, META_CURR_NEW)
                  /\ Saved(Structure, META_CURR_NEW.Identifier)
        ELSE IF meta_loaded_changed
        THEN IF IsNone(META_CURR[1]) # {}
             THEN Refused("Please fully populate the Current Meta table")
             ELSE /\ replace_db_element(DATA_CURR, MASSES_CURR, META_CURR[1],
                                        selected_structure)
                  /\ Saved(Structure, META_CURR[1].Identifier)
        ELSE IF data_changed
        THEN LET w == write_db_element_data(tables, selected_structure,
                                            DATA_CURR, MASSES_CURR)
             IN  /\ tables' = w.tables
                 /\ META' = META
                 /\ Called("write", selected_structure, "",
                           IF w.ok THEN "True" ELSE "False")
                 /\ Saved(Structure, META_CURR[1].Identifier)
        ELSE Refused("No changes detected.")

\* db_handling.py:435-436, 510-511, 553-554 - save_MP_data, save_TP_data,
\* save_TOWER_data
SaveData ==
    /\ Edit
    /\ \E Structure \in SheetStructures, selected_structure \in Ids \cup {""},
          META_CURR_NEW \in NewMetas :
          save_data(Structure, selected_structure, META_CURR_NEW)
    /\ UNCHANGED <<pc, MP_DATA, TP_DATA, TOWER_DATA, WHOLE_STRUCTURE, STRUCTURE_META,
                   tower_offset, sink, answer, addVars>>

\* db_handling.py:453-454, 470-471 - the rows read from the MP tool file
\* with dtype=float, rows of missing cells dropped
MPToolTables ==
    {FloatData(SheetTable(<< <<2, 0>> >>)),
     FloatData(Spoil(SheetTable(<< <<2, 1>>, <<1, 0>> >>), "nan"))}

\* db_handling.py:447-476 - load_MP_from_MPTool, load_TP_from_MPTool: the
\* table goes to the sheet, or the file cannot be read and a message is shown
LoadFromMPTool ==
    /\ Edit
    /\ \E Structure \in {"MP", "TP"} :
          \/ /\ \E Data \in MPToolTables :
                   sheet' = [sheet EXCEPT ![Structure \o "_DATA"] = Data]
             /\ msgs' = msgs
          \/ /\ msgs' = msgs \cup {"Error reading MP tool file"}
             /\ sheet' = sheet
    /\ UNCHANGED <<pc, MP_DATA, TP_DATA, TOWER_DATA, WHOLE_STRUCTURE, STRUCTURE_META,
                   tower_offset, sink, answer, addVars, dbVars>>

\* misc.py:200-202, 227-229 - a META table without rows has no row 0:
\* KeyError
NoRow == \E S \in SheetStructures : sheet[S \o "_META"] = <<>>

\* misc.py:227-248 - the references and the water depth are the cells of
\* the sheet, read as they are
ReconcileGiven ==
    /\ pc = "href"
    /\ IF NoRow
       THEN /\ pc' = "crashed"
            /\ UNCHANGED <<msgs, answer, STRUCTURE_META, MP_DATA, TP_DATA, TOWER_DATA>>
       ELSE \E button \in {"Yes", "No"} :
               Reconcile(sheet.MP_META[1].HeightReference, sheet.TP_META[1].HeightReference,
                         sheet.TOWER_META[1].HeightReference, sheet.MP_META[1].WaterDepth,
                         button)
    /\ UNCHANGED <<sheet, WHOLE_STRUCTURE, tower_offset, sink, addVars, dbVars, edits>>

\* misc.py:251-252 - the MP or the TP has no rows: IndexError
JunctionEmpty ==
    /\ pc = "junction"
    /\ ~HasRanges
    /\ pc' = "crashed"
    /\ UNCHANGED <<sheet, MP_DATA, TP_DATA, TOWER_DATA, WHOLE_STRUCTURE,
                   STRUCTURE_META, tower_offset, sink, msgs, answer, addVars, dbVars, edits>>

NextSheet ==
    \/ MoveStructure
    \/ LoadData
    \/ SaveData
    \/ DeleteData
    \/ LoadFromMPTool
    \/ Validate
    \/ SelectRNA
    \/ ReconcileGiven
    \/ JunctionGap
    \/ JunctionFit
    \/ JunctionGrouted
    \/ JunctionSkirt
    \/ JunctionEmpty
    \/ AddTower
    \/ MergeGiven

SpecSheet == InitSheet /\ [][NextSheet]_vars

\* ------------------------------------------------------------------ claims
\* vocabulary of the claims, stated on the sheet and on the sink
SegTables == {"MP_DATA", "TP_DATA", "TOWER_DATA"}
Started == pc \in {"rna", "href", "junction", "tower", "masses", "done", "aborted", "crashed"}
Written == DOMAIN sink
AssemblyOutputs == {"SKIRT", "SKIRT_POINTMASS", "WHOLE_STRUCTURE",
                    "ALL_ADDED_MASSES", "STRUCTURE_META"}
HasBadCell(tbl) ==
    \E i \in 1..Len(tbl), c \in DataCols : tbl[i][c].k \in {"nan", "str"}
Continuous(tbl) == \A i \in 1..(Len(tbl) - 1) : FEq(tbl[i].Bottom, tbl[i + 1].Top)
SheetMPTop == sheet.MP_DATA[1].Top
SheetTPBot == sheet.TP_DATA[Len(sheet.TP_DATA)].Bottom
IsNode(tbl, h) == \E i \in 1..Len(tbl) : FEq(tbl[i].Top, h) \/ FEq(tbl[i].Bottom, h)
Straddlers(tbl, h) == {i \in 1..Len(tbl) : FLt(tbl[i].Bottom, h) /\ FLt(h, tbl[i].Top)}
SkirtChosen == "overlap: grouted or skirt?" \in msgs /\ "under construction" \notin msgs
Geo(r) == <<r.Top, r.Bottom, r.DTop, r.DBottom, r.t>>

\* C1: once the validator has run, a sheet on which some MP, TP or TOWER
\* table has an adjacent pair with top_m[i+1] # bottom_m[i] has made the run
\* abort; a run that goes on has continuous tables only.
C1_DiscontinuityAborts ==
    Started => \A name \in SegTables :
                   ~Continuous(sheet[name]) => pc = "aborted"

\* C2: when the top of the first MP segment is lower than the bottom of the
\* last TP segment, the run never gets past the junction and no table is
\* written to the sink at any point of the run.
C2_GapWritesNothing ==
    (Started /\ FLt(SheetMPTop, SheetTPBot))
        => (pc \notin {"tower", "masses", "done"} /\ Written = {})

\* C3: after the grouted-connection merge was chosen for an overlap (reported
\* as not available), no WHOLE_STRUCTURE, added-mass or metadata table is
\* written.
C3_GroutedNoOutput ==
    (Started /\ "under construction" \in msgs)
        => Written \cap {"WHOLE_STRUCTURE", "ALL_ADDED_MASSES", "STRUCTURE_META"} = {}

\* C4: in skirt mode, when no node can be inserted at MP_top (MP_top is no
\* node of the TP and not exactly one TP segment strictly straddles it), the
\* run does not go on to the tower and writes none of the assembly outputs.
C4_FailedInsertionAborts ==
    (Started /\ SkirtChosen /\ ~IsNode(sheet.TP_DATA, SheetMPTop)
             /\ Cardinality(Straddlers(sheet.TP_DATA, SheetMPTop)) # 1)
        => (pc \notin {"tower", "masses", "done"} /\ Written \cap AssemblyOutputs = {})

\* C5: when a segment table of the sheet holds a missing or non-numeric
\* cell, the run aborts in the validator and nothing is ever written.
C5_InvalidDataAborts ==
    (Started /\ \E name \in SegTables : HasBadCell(sheet[name]))
        => (pc = "aborted" /\ Written = {})
C5_Witness ==
    /\ pc = "aborted"
    /\ HasBadCell(sheet.TP_DATA)
    /\ "invalid data TP" \in msgs
    /\ Written = {}

\* the diameter the claim gives for the cut of S at height h
ClaimD(S, h) ==
    FAdd(S.DBottom, FDiv(FMul(FSub(S.DTop, S.DBottom), FSub(h, S.Bottom)),
                         FSub(S.Top, S.Bottom)))
HalfIs(r, top, bottom, dtop, dbottom, S) ==
    /\ r.Top = top /\ r.Bottom = bottom /\ r.DTop = dtop /\ r.DBottom = dbottom
    /\ r.t = S.t /\ r.Affiliation = S.Affiliation
SplitCase == calls >= 1 /\ ~IsNode(T, z) /\ Cardinality(Straddlers(T, z)) = 1

\* C6: when exactly one segment S of T strictly straddles z and z is no node,
\* add_element returns T with S replaced by {S.top, z, S.d_top, d(z)} above
\* {z, S.bottom, d(z), S.d_bottom}, both with S's thickness and affiliation,
\* every other segment unchanged.
C6_SplitHalves ==
    SplitCase =>
        LET i == CHOOSE j \in Straddlers(T, z) : TRUE
            S == T[i]
            out == ret.df
        IN  /\ ret.type = "DataFrame"
            /\ Len(out) = Len(T) + 1
            /\ \A j \in 1..(i - 1) : out[j] = T[j]
            /\ \A j \in (i + 1)..Len(T) : out[j + 1] = T[j]
            /\ HalfIs(out[i], S.Top, z, S.DTop, ClaimD(S, z), S)
            /\ HalfIs(out[i + 1], z, S.Bottom, ClaimD(S, z), S.DBottom, S)

\* C7: after an insertion at z the segment ending at z and the segment
\* starting at z have the same diameter there.
C7_DiameterContinuity ==
    SplitCase =>
        \A a \in 1..Len(ret.df), b \in 1..Len(ret.df) :
            (FEq(ret.df[a].Bottom, z) /\ FEq(ret.df[b].Top, z))
                => FEq(ret.df[a].DBottom, ret.df[b].DTop)

\* C8: add_element applied twice with the same z gives what it gives applied
\* once, and a z that is already a top_m or bottom_m of T leaves T unchanged.
C8_Idempotent ==
    /\ calls = 2 => ret2 = ret
    /\ (calls >= 1 /\ IsNode(T, z)) => ret = PyDf(T)
C8_Witness ==
    /\ calls = 2
    /\ Len(ret.df) = Len(T) + 1
    /\ IsNode(ret.df, z)
    /\ ret2 = ret

\* C9: when z is no node of T and not exactly one segment strictly straddles
\* z, add_element inserts nothing and returns None, so that the caller can
\* tell the failure from a table.
C9_FailureReturnsNone ==
    (calls >= 1 /\ ~IsNode(T, z) /\ Cardinality(Straddlers(T, z)) # 1)
        => ret = PyNone

\* the TP of the sheet as the skirt step sees it, the node at MP_top inserted
SheetTPSplit ==
    add_element(InsertAffiliation(valid_data(sheet.TP_DATA)[2], "TP"), SheetMPTop).df
StackTP == SelectSeq(WHOLE_STRUCTURE, LAMBDA r : r.Affiliation = "TP")
InSkirt(r) ==
    /\ "SKIRT" \in Written
    /\ \E j \in 1..Len(sink["SKIRT"]) :
          Geo(sink["SKIRT"][j]) = Geo(r) /\ sink["SKIRT"][j].Affiliation = "SKIRT"
InStack(r) == \E j \in 1..Len(StackTP) : Geo(StackTP[j]) = Geo(r)
SkirtSplitDone ==
    /\ pc \in {"tower", "masses", "done"}
    /\ SkirtChosen
    /\ ~IsNode(sheet.TP_DATA, SheetMPTop)
    /\ Cardinality(Straddlers(sheet.TP_DATA, SheetMPTop)) = 1

\* C10: in skirt mode, after the node at MP_top was inserted, the TP segments
\* with top_m <= MP_top are exactly the rows of the SKIRT table (affiliation
\* SKIRT), those with bottom_m >= MP_top are exactly the TP rows of the
\* stack, and every TP segment is in one of the two and not in both.
C10_SkirtPartition ==
    SkirtSplitDone =>
        /\ \A i \in 1..Len(SheetTPSplit) :
              LET r == SheetTPSplit[i]
              IN  /\ InSkirt(r) <=> FLe(r.Top, SheetMPTop)
                  /\ InStack(r) <=> FGe(r.Bottom, SheetMPTop)
                  /\ InSkirt(r) # InStack(r)
        /\ Len(sink["SKIRT"]) + Len(StackTP) = Len(SheetTPSplit)
C10_Witness ==
    /\ pc = "done"
    /\ SkirtSplitDone
    /\ Len(sink["SKIRT"]) >= 1
    /\ Len(StackTP) >= 1
    /\ "WHOLE_STRUCTURE" \in Written

\* the stack as written to the sink
StackWritten == "WHOLE_STRUCTURE" \in Written
Stack == sink["WHOLE_STRUCTURE"]
AffRows(tbl, a) == SelectSeq(tbl, LAMBDA r : r.Affiliation = a)
Elev(tbl) == [i \in 1..Len(tbl) |-> <<tbl[i].Top, tbl[i].Bottom>>]
TopDown(tbl) == \A i \in 1..(Len(tbl) - 1) : FGe(tbl[i].Top, tbl[i + 1].Top)

\* C11: a written WHOLE_STRUCTURE of N rows has Section = 1..N in row order,
\* its rows are the TOWER rows, then the TP rows, then the MP rows, and
\* top_m never rises from a row to the next.
C11_SectionsTopDown ==
    StackWritten =>
        /\ \A i \in 1..Len(Stack) : Stack[i].Section = F(i)
        /\ Stack = AffRows(Stack, "TOWER") \o AffRows(Stack, "TP") \o AffRows(Stack, "MP")
        /\ TopDown(Stack)

\* the tower of the sheet, the written tower rows, the MP+TP part below them
SheetTower == sheet.TOWER_DATA
StackTower == AffRows(Stack, "TOWER")
StackBelow == SelectSeq(Stack, LAMBDA r : r.Affiliation # "TOWER")
ClaimOffset == FSub(StackBelow[1].Top, SheetTower[Len(SheetTower)].Bottom)
LowestBottom(tbl) ==
    tbl[CHOOSE i \in 1..Len(tbl) : \A j \in 1..Len(tbl) : FLe(tbl[i].Bottom, tbl[j].Bottom)].Bottom
Height(r) == FSub(r.Top, r.Bottom)

\* C12: in a written stack every tower row is its sheet row moved by the one
\* offset (top of the first MP+TP row) - (bottom of the last tower row), so
\* the lowest tower bottom is the top of the MP+TP part and every tower
\* segment keeps its height; the MP rows and the TP rows have the elevations
\* they had before the alignment.
C12_TowerAligned ==
    StackWritten =>
        /\ tower_offset = ClaimOffset
        /\ Len(StackTower) = Len(SheetTower)
        /\ \A i \in 1..Len(SheetTower) :
              /\ StackTower[i].Top = FAdd(SheetTower[i].Top, ClaimOffset)
              /\ StackTower[i].Bottom = FAdd(SheetTower[i].Bottom, ClaimOffset)
              /\ Height(StackTower[i]) = Height(SheetTower[i])
        /\ LowestBottom(StackTower) = StackBelow[1].Top
        /\ Elev(AffRows(Stack, "MP")) = Elev(sheet.MP_DATA)
        /\ \A i \in 1..Len(StackTP) :
              \E j \in 1..Len(SheetTPSplit) :
                 Elev(StackTP)[i] = Elev(SheetTPSplit)[j]

\* the height references of the sheet, each META table having its row; the
\* stage is over when the run has left it, not ended before it by invalid
\* data or by the RNA abort
SheetRefs == <<sheet.MP_META[1].HeightReference, sheet.TP_META[1].HeightReference,
               sheet.TOWER_META[1].HeightReference>>
NonNull == {SheetRefs[i] : i \in 1..3} \ {NoneRef}
RefsAgree == Cardinality(NonNull) <= 1
ConflictReported == "height references differ" \in msgs
PastReferences ==
    /\ pc \in {"junction", "tower", "masses", "done", "aborted", "crashed"}
    /\ "RNA not in dropdown, aborting" \notin msgs
    /\ \A S \in SheetStructures :
          ("invalid data " \o S) \notin msgs /\ Len(sheet[S \o "_META"]) > 0

\* C13: for every combination of the three height references, when all
\* non-null references agree (none, one, two or three of them null) the
\* stage reports no conflict, asks nothing, records the common value if
\* there is one and the run goes on to the junction; a conflict is reported
\* exactly when two non-null references differ.
C13_ReferencesReconciled ==
    PastReferences =>
        /\ ConflictReported <=> ~RefsAgree
        /\ RefsAgree =>
              /\ "height references same" \in msgs
              /\ \A c \in NonNull : STRUCTURE_META.HeightReference = Str(c)

\* what ends a run after the height reference stage has let it go on: the
\* gap abort of misc.py:255-258, or an exception of the skirt branch
EndedLater ==
    \/ pc = "aborted" /\ "TP hovering over MP, aborting" \in msgs
    \/ pc = "crashed" /\ "overlap: grouted or skirt?" \in msgs

\* C14: when the height references conflict the dialog is answered and the
\* outcome follows the answer. After No the run has ended at the height
\* reference stage and none of the assembly outputs is written. After Yes
\* the run goes on to the later stages (only one of them ends it), it never
\* holds a Height Reference other than the empty one, and when it completes
\* it has written STRUCTURE_META with Height Reference empty.
C14_ConflictFollowsAnswer ==
    ConflictReported =>
        /\ answer \in {"Yes", "No"}
        /\ answer = "No" =>
              /\ pc = "aborted"
              /\ "TP hovering over MP, aborting" \notin msgs
              /\ Written \cap AssemblyOutputs = {}
        /\ answer = "Yes" =>
              /\ pc \in {"junction", "tower", "masses", "done"} \/ EndedLater
              /\ STRUCTURE_META.HeightReference = Str("")
              /\ pc = "done" =>
                    /\ "STRUCTURE_META" \in Written
                    /\ sink["STRUCTURE_META"].HeightReference = Str("")
C14_Witness ==
    /\ ConflictReported
    /\ answer = "Yes"
    /\ pc = "done"
    /\ StackWritten
    /\ sink["STRUCTURE_META"].HeightReference = Str("")

\* the merged mass table as written, and what the claims say it holds
AllWritten == "ALL_ADDED_MASSES" \in Written /\ DOMAIN sheet = {"MP_MASSES", "TP_MASSES", "TOWER_MASSES"}
AllRows == sink["ALL_ADDED_MASSES"]
Count(tbl, r) == Cardinality({i \in 1..Len(tbl) : tbl[i] = r})
SameRows(a, b) ==
    /\ Len(a) = Len(b)
    /\ \A i \in 1..Len(a) : Count(a, a[i]) = Count(b, a[i])
Untagged(tbl) == [i \in 1..Len(tbl) |-> [c \in DOMAIN tbl[i] \ {"Affiliation"} |-> tbl[i][c]]]
Aligned(r) ==
    [r EXCEPT !.Top = FAdd(@, tower_offset),
              !.Bottom = IF IsNum(@) THEN FAdd(@, tower_offset) ELSE @]
AlignedTower == [i \in 1..Len(sheet.TOWER_MASSES) |-> Aligned(sheet.TOWER_MASSES[i])]

\* C15: ALL_ADDED_MASSES holds as many rows as the MP, TP and TOWER mass
\* tables together; its rows tagged MP, TP, TOWER are, with their
\* multiplicities, the rows of the MP table, of the TP table and of the
\* aligned TOWER table; top_m never rises from a row to the next.
C15_MassesMerged ==
    AllWritten =>
        /\ Len(AllRows) = Len(sheet.MP_MASSES) + Len(sheet.TP_MASSES) + Len(sheet.TOWER_MASSES)
        /\ \A i \in 1..Len(AllRows) : AllRows[i].Affiliation \in {"MP", "TP", "TOWER"}
        /\ SameRows(Untagged(AffRows(AllRows, "MP")), sheet.MP_MASSES)
        /\ SameRows(Untagged(AffRows(AllRows, "TP")), sheet.TP_MASSES)
        /\ SameRows(Untagged(AffRows(AllRows, "TOWER")), AlignedTower)
        /\ TopDown(AllRows)
C15_Witness ==
    /\ AllWritten
    /\ Len(AllRows) = 2 + MaxMass
    /\ \E i \in 1..(Len(AllRows) - 1) :
          AllRows[i].Top = AllRows[i + 1].Top /\ AllRows[i].Affiliation = AllRows[i + 1].Affiliation
    /\ \E i \in 1..(Len(AllRows) - 1) : FGt(AllRows[i].Top, AllRows[i + 1].Top)
    /\ AllRows[1].Affiliation = "TOWER" /\ sheet.TOWER_MASSES[1].Top = F(0)

\* the elevations the claim gives a tower mass after the alignment
ShiftedElev(r) ==
    <<FAdd(r.Top, tower_offset),
      IF IsNum(r.Bottom) THEN FAdd(r.Bottom, tower_offset) ELSE r.Bottom>>

\* C16: of the merged masses only those of the TOWER are moved: their top_m
\* by tower_offset, their bottom_m by tower_offset when it is a number and
\* not at all when it is absent or a text; the MP and TP masses keep their
\* top_m and bottom_m.
C16_OnlyTowerMassesShifted ==
    AllWritten =>
        /\ SameRows(Elev(AffRows(AllRows, "TOWER")),
                    [i \in 1..Len(sheet.TOWER_MASSES) |-> ShiftedElev(sheet.TOWER_MASSES[i])])
        /\ SameRows(Elev(AffRows(AllRows, "MP")), Elev(sheet.MP_MASSES))
        /\ SameRows(Elev(AffRows(AllRows, "TP")), Elev(sheet.TP_MASSES))
C16_Witness ==
    /\ AllWritten
    /\ tower_offset = F(1)
    /\ \E i \in 1..Len(sheet.TOWER_MASSES), j \in 1..Len(sheet.TOWER_MASSES) :
          /\ sheet.TOWER_MASSES[i].Bottom = F(0)
          /\ sheet.TOWER_MASSES[j].Bottom = Text
    /\ \E i \in 1..Len(AllRows) : AllRows[i].Affiliation = "TOWER" /\ AllRows[i].Bottom = F(1)
    /\ \E i \in 1..Len(AllRows) : AllRows[i].Affiliation = "TOWER" /\ AllRows[i].Bottom = Text
    /\ \E i \in 1..Len(AllRows) : AllRows[i].Affiliation = "MP" /\ AllRows[i].Bottom = F(0)

\* the three tables of the sheet are listed top to bottom without gap or
\* overlap
SheetWellFormed ==
    \A name \in SegTables :
        /\ Continuous(sheet[name])
        /\ \A i \in 1..(Len(sheet[name]) - 1) : FGt(sheet[name][i].Top, sheet[name][i + 1].Top)

\* C17: a WHOLE_STRUCTURE written from MP, TP and TOWER tables that are each
\* sorted by decreasing elevation and continuous is continuous from its
\* first row to its last: bottom_m of every row is top_m of the next, also
\* where the tower meets the TP and the TP meets the MP.
C17_StackContinuous ==
    (StackWritten /\ SheetWellFormed) => Continuous(Stack)

\* the META rows and the structure tables of the database correspond
HasTables(Identifier) == {TableOf(Identifier), MassesOf(Identifier)} \subseteq DOMAIN tables
Corresponds ==
    /\ \A i \in 1..Len(META) : HasTables(META[i].Identifier)
    /\ \A name \in DOMAIN tables : InMETA(META, name.id)

\* C18: in a database that started with every META identifier having its
\* table <id> and its table <id>__ADDED_MASSES and no other structure table,
\* after any sequence of add_db_element, replace_db_element,
\* write_db_element_data and delete_db_element no META row points to a
\* missing table and no table is without a META row.
C18_TablesMatchMETA == Corresponds

\* no two META rows share an Identifier
UniqueIds ==
    \A i \in 1..Len(META), j \in 1..Len(META) :
        META[i].Identifier = META[j].Identifier => i = j
\* the step is an add of an identifier META holds, or a rename (a replace
\* with a new identifier other than the old one) to an identifier META holds
ToTakenIdentifier ==
    \/ call'.op = "add" /\ InMETA(META, call'.Identifier)
    \/ /\ call'.op = "replace"
       /\ call'.old_id # call'.Identifier
       /\ InMETA(META, call'.Identifier)

\* C19: the identifiers of META stay unique under add_db_element,
\* replace_db_element and delete_db_element, and an add or a rename to an
\* identifier that META already holds returns False and changes neither
\* META nor any structure table.
C19_IdentifiersUnique ==
    [][/\ UniqueIds => UniqueIds'
       /\ ToTakenIdentifier => (call'.ret = "False" /\ UNCHANGED <<META, tables>>)]_vars

====
